---- MODULE Spec2Model ----
(***************************************************************************)
(* Model of the Karbon flag rule engine (rules.py) and of its evaluation   *)
(* pipeline probe_model_5l_profit (app.py).                                *)
(*                                                                         *)
(* A Python value is a record tagged by "kind":                            *)
(*   absent  a key that is not in a dict                                   *)
(*   none    Python's None                                                 *)
(*   num     a number, kept as the exact fraction num/den in lowest terms  *)
(*           with den > 0 (the int and float values the model uses are     *)
(*           small enough for float division to order them as the exact    *)
(*           quotient does)                                                *)
(*   list    a list, items being its elements                              *)
(*   dict    a dict with the keys the code reads                           *)
(*   other   a value that is neither absent nor a list                     *)
(*   raise   the call did not return: exc is the exception raised          *)
(***************************************************************************)
EXTENDS Integers, Sequences, FiniteSets, TLC

\* data     the document handed to the rule engine (app.py:52)
\* call     the rule function last applied to it, with its index and what
\*          it returned or raised (rules.py, imported at app.py:3)
\* pc       the position in probe_model_5l_profit (app.py:18-36)
\* lastest_financial_index_value, flags: its locals (app.py:18-28)
\* result   what probe_model_5l_profit returned or raised (app.py:30-36)
VARIABLES data, call, pc, lastest_financial_index_value, flags, result

vars == <<data, call, pc, lastest_financial_index_value, flags, result>>

----------------------------------------------------------------------------
(* Python values *)

Absent == [kind |-> "absent"]

None == [kind |-> "none"]

Other == [kind |-> "other"]

List(s) == [kind |-> "list", items |-> s]

Raise(e) == [kind |-> "raise", exc |-> e]

Abs(n) == IF n < 0 THEN 0 - n ELSE n

RECURSIVE Gcd(_, _)
Gcd(a, b) == IF b = 0 THEN a ELSE Gcd(b, a % b)

\* The number n/d (d # 0) in lowest terms with a positive denominator.
Num(n, d) ==
    LET g == Gcd(Abs(n), Abs(d))
        s == IF d < 0 THEN 0 - 1 ELSE 1
    IN  [kind |-> "num", num |-> (s * n) \div g, den |-> Abs(d) \div g]

IntVal(n) == Num(n, 1)

IsRaise(v) == v.kind = "raise"

IsNum(v) == v.kind = "num"

\* a <= b for two numbers.
NumLE(a, b) == a.num * b.den <= b.num * a.den

\* Python's a / b: TypeError unless both are numbers, ZeroDivisionError
\* when b is zero.
Div(a, b) ==
    IF ~IsNum(a) \/ ~IsNum(b) THEN Raise("TypeError")
    ELSE IF b.num = 0 THEN Raise("ZeroDivisionError")
    ELSE Num(a.num * b.den, a.den * b.num)

\* Python's seq[i] on a list raises IndexError outside -len .. len-1.
IndexError(s, i) == i >= Len(s) \/ i < 0 - Len(s)

\* Python's seq[i] on a list, for an i that is no IndexError: a negative i
\* counts from the end.
GetItem(s, i) == IF i >= 0 THEN s[i + 1] ELSE s[Len(s) + i + 1]

\* Python's d[key] on a dict: KeyError when the key is not in it.
Lookup(v) == IF v.kind = "absent" THEN Raise("KeyError") ELSE v

RECURSIVE SumSeq(_)
SumSeq(s) == IF s = <<>> THEN 0 ELSE Head(s) + SumSeq(Tail(s))

\* Python's sum(v) of a list of integers.
Sum(v) == IF IsRaise(v) THEN v ELSE IntVal(SumSeq(v.items))

Min(a, b) == IF a <= b THEN a ELSE b

----------------------------------------------------------------------------
(* class FLAGS *)

GREEN == 1

AMBER == 2

RED == 0

MEDIUM_RISK == 3

WHITE == 4

Threshold5Cr == 50000000

----------------------------------------------------------------------------
(* rules.py *)

RECURSIVE FirstStandalone(_, _)
\* The enumerate loop from position i (0-based) on.
FirstStandalone(financials, index) ==
    IF index >= Len(financials) THEN 0
    ELSE IF financials[index + 1].nature = "STANDALONE" THEN index
    ELSE FirstStandalone(financials, index + 1)

\* data.get("financials") is None when the key is absent, and
\* enumerate(None) raises TypeError.
latest_financial_index(d) ==
    IF d.financials.kind = "absent" THEN Raise("TypeError")
    ELSE IntVal(FirstStandalone(d.financials.items, 0))

\* total_revenue without its `0 <=` test: a negative index then counts from
\* the end of the list, as Python's indexing does.
total_revenue_negative_index(d, financial_index) ==
    IF d.financials.kind # "absent" /\ financial_index < Len(d.financials.items)
    THEN IF IndexError(d.financials.items, financial_index) THEN Raise("IndexError")
         ELSE LET financial_entry == GetItem(d.financials.items, financial_index)
              IN  IF financial_entry.pnl.kind # "absent"
                     /\ financial_entry.pnl.lineItems.kind # "absent"
                     /\ financial_entry.pnl.lineItems.netRevenue.kind # "absent"
                  THEN financial_entry.pnl.lineItems.netRevenue
                  ELSE None
    ELSE None

total_revenue(d, financial_index) ==
    IF d.financials.kind # "absent"
       /\ 0 <= financial_index
       /\ financial_index < Len(d.financials.items)
    THEN LET financial_entry == d.financials.items[financial_index + 1]
         IN  IF financial_entry.pnl.kind # "absent"
                /\ financial_entry.pnl.lineItems.kind # "absent"
                /\ financial_entry.pnl.lineItems.netRevenue.kind # "absent"
             THEN financial_entry.pnl.lineItems.netRevenue
             ELSE None
    ELSE None

total_borrowing(d, financial_index) ==
    IF d.bs.kind = "list" /\ financial_index < Len(d.bs.items)
    THEN IF IndexError(d.bs.items, financial_index) THEN Raise("IndexError")
         ELSE
             LET entry == GetItem(d.bs.items, financial_index)
                 long_term_borrowings == Sum(Lookup(entry.long_term_borrowings))
                 short_term_borrowings == Sum(Lookup(entry.short_term_borrowings))
                 total_rev == total_revenue(d, financial_index)
             IN  IF IsRaise(long_term_borrowings) THEN long_term_borrowings
                 ELSE IF IsRaise(short_term_borrowings) THEN short_term_borrowings
                 ELSE IF total_rev # IntVal(0)
                 THEN Div(IntVal(long_term_borrowings.num + short_term_borrowings.num),
                          total_rev)
                 ELSE None
    ELSE IntVal(0)

iscr(d, financial_index) ==
    LET profit_before_interest_tax_deprec_list ==
            IF d.profit_before_interest_tax_deprec.kind = "absent" THEN <<>>
            ELSE d.profit_before_interest_tax_deprec.items
        interest_expenses_list ==
            IF d.interest_expenses.kind = "absent" THEN <<>>
            ELSE d.interest_expenses.items
    IN  IF 0 <= financial_index
           /\ financial_index < Min(Len(profit_before_interest_tax_deprec_list),
                                    Len(interest_expenses_list))
        THEN Div(IntVal(profit_before_interest_tax_deprec_list[financial_index + 1] + 1),
                 IntVal(interest_expenses_list[financial_index + 1] + 1))
        ELSE IntVal(0)

iscr_flag(d, financial_index) ==
    LET iscr_value == iscr(d, financial_index)
    IN  IF IsRaise(iscr_value) THEN iscr_value
        ELSE IF NumLE(IntVal(2), iscr_value) THEN IntVal(GREEN)
        ELSE IntVal(RED)

\* total_revenue_5cr_flag with `>` for `>=`.
total_revenue_5cr_flag_strict(d, financial_index) ==
    LET total_rev == total_revenue(d, financial_index)
    IN  IF total_rev # None /\ ~NumLE(total_rev, IntVal(Threshold5Cr)) THEN IntVal(GREEN)
        ELSE IntVal(RED)

\* total_revenue_5cr_flag mapping a missing revenue to WHITE.
total_revenue_5cr_flag_white(d, financial_index) ==
    LET total_rev == total_revenue(d, financial_index)
    IN  IF total_rev = None THEN IntVal(WHITE)
        ELSE IF NumLE(IntVal(Threshold5Cr), total_rev) THEN IntVal(GREEN)
        ELSE IntVal(RED)

total_revenue_5cr_flag(d, financial_index) ==
    LET total_rev == total_revenue(d, financial_index)
    IN  IF total_rev # None /\ NumLE(IntVal(Threshold5Cr), total_rev) THEN IntVal(GREEN)
        ELSE IntVal(RED)

borrowing_to_revenue_flag(d, financial_index) ==
    IF d.total_revenue.kind = "list" /\ financial_index < Len(d.total_revenue.items)
    THEN LET total_borrowings == total_borrowing(d, financial_index)
             revenue == IntVal(GetItem(d.total_revenue.items, financial_index))
             ratio == Div(total_borrowings, revenue)
         IN  IF IsRaise(total_borrowings) THEN total_borrowings
             ELSE IF IndexError(d.total_revenue.items, financial_index)
             THEN Raise("IndexError")
             ELSE IF IsRaise(ratio) THEN ratio
             ELSE IF NumLE(ratio, Num(1, 4)) THEN IntVal(GREEN)
             ELSE IntVal(AMBER)
    ELSE IntVal(AMBER)

----------------------------------------------------------------------------
(* Input documents *)

\* The longest list of periods a document holds.
MaxLen == 2

SeqsUpTo(S, n) == UNION {[1..k -> S] : k \in 0..n}

\* The financial_index values the rule functions are applied to: negative,
\* in bounds and past the end of every list.
Indexes == (0 - 1) .. MaxLen

LineItems(netRevenue) == [kind |-> "dict", netRevenue |-> netRevenue]

Pnl(lineItems) == [kind |-> "dict", lineItems |-> lineItems]

\* nature "NONE" stands for an entry without the key: .get gives None.
Financial(nature, pnl) == [kind |-> "dict", nature |-> nature, pnl |-> pnl]

Revenue(v) == Pnl(LineItems(IntVal(v)))

BsEntry(long_term, short_term) ==
    [kind |-> "dict", long_term_borrowings |-> long_term,
     short_term_borrowings |-> short_term]

Document(financials, bs, profit, interest, revenue) ==
    [financials |-> financials, bs |-> bs,
     profit_before_interest_tax_deprec |-> profit,
     interest_expenses |-> interest, total_revenue |-> revenue]

OptList(S) == {Absent} \cup {List(s) : s \in SeqsUpTo(S, MaxLen)}

Natures == {"STANDALONE", "CONSOLIDATED", "NONE"}

PnlShapes == {Absent, Pnl(Absent), Pnl(LineItems(Absent))}

\* Documents for the period selector and the revenue rules.
DocsRevenue ==
    {Document(f, Absent, Absent, Absent, Absent) :
        f \in OptList({Financial(n, p) :
                n \in Natures,
                p \in PnlShapes \cup {Revenue(v) : v \in {0, 49999999, 50000000, 60000000}}})}

\* Documents for the interest service coverage rules.
DocsIscr ==
    {Document(Absent, Absent, p, i, Absent) :
        p \in OptList({0 - 1, 8, 9}), i \in OptList({0 - 1, 0, 4})}

BsEntries ==
    {BsEntry(List(<<10>>), List(<<15>>)), BsEntry(List(<<10, 15>>), List(<<1>>)),
     BsEntry(List(<<>>), List(<<>>)), BsEntry(Absent, List(<<15>>))}

\* Documents for the borrowing rules.
DocsBorrowing ==
    {Document(f, b, Absent, Absent, r) :
        f \in OptList({Financial("CONSOLIDATED", p) :
                p \in {Pnl(LineItems(Absent)), Revenue(0), Revenue(100)}}),
        b \in {Other} \cup OptList(BsEntries),
        r \in {Other} \cup OptList({0, 1, 100})}

\* Documents for the evaluation pipeline.
DocsPipeline ==
    {Document(f, b, p, i, r) :
        f \in OptList({Financial("CONSOLIDATED", Absent),
                       Financial("STANDALONE", Revenue(100)),
                       Financial("STANDALONE", Revenue(60000000))}),
        b \in {Other} \cup OptList({BsEntry(List(<<10>>), List(<<15>>))}),
        p \in OptList({9}),
        i \in OptList({4}),
        r \in OptList({0, 100})}

----------------------------------------------------------------------------
(* State *)

NoCall == [fn |-> "", financial_index |-> 0, ret |-> None]

Called(fn, financial_index, ret) ==
    [fn |-> fn, financial_index |-> financial_index, ret |-> ret]

InitWith(Docs) ==
    /\ data \in Docs
    /\ call = NoCall
    /\ pc = "start"
    /\ lastest_financial_index_value = None
    /\ flags = <<>>
    /\ result = None

Pipeline == <<pc, lastest_financial_index_value, flags, result>>

----------------------------------------------------------------------------
(* The rule functions applied to a document *)

Apply(c) ==
    /\ pc = "start"
    /\ call' = c
    /\ UNCHANGED <<data, Pipeline>>

call_latest_financial_index ==
    Apply(Called("latest_financial_index", 0, latest_financial_index(data)))

call_total_revenue ==
    \E i \in Indexes : Apply(Called("total_revenue", i, total_revenue(data, i)))

call_total_revenue_5cr_flag ==
    \E i \in Indexes :
        Apply(Called("total_revenue_5cr_flag", i, total_revenue_5cr_flag(data, i)))

call_total_borrowing ==
    \E i \in Indexes : Apply(Called("total_borrowing", i, total_borrowing(data, i)))

call_borrowing_to_revenue_flag ==
    \E i \in Indexes :
        Apply(Called("borrowing_to_revenue_flag", i, borrowing_to_revenue_flag(data, i)))

call_iscr ==
    \E i \in Indexes : Apply(Called("iscr", i, iscr(data, i)))

call_iscr_flag ==
    \E i \in Indexes : Apply(Called("iscr_flag", i, iscr_flag(data, i)))

----------------------------------------------------------------------------
(* app.py: probe_model_5l_profit *)

FlagNames == {"TOTAL_REVENUE_5CR_FLAG", "BORROWING_TO_REVENUE_FLAG", "ISCR_FLAG"}

\* One statement of the pipeline: an exception raised by the call ends the
\* evaluation, a returned value is kept.
probe_index ==
    /\ pc = "start"
    /\ call = NoCall
    /\ LET v == latest_financial_index(data)
       IN  IF IsRaise(v)
           THEN /\ pc' = "raised"
                /\ result' = v
                /\ UNCHANGED lastest_financial_index_value
           ELSE /\ pc' = "flags"
                /\ lastest_financial_index_value' = v
                /\ UNCHANGED result
    /\ UNCHANGED <<data, call, flags>>

\* A classifier statement: it runs once the statements in `after` have.
Classify(name, v, after) ==
    /\ pc = "flags"
    /\ name \notin DOMAIN flags
    /\ after \subseteq DOMAIN flags
    /\ IF IsRaise(v)
       THEN /\ pc' = "raised"
            /\ result' = v
            /\ UNCHANGED flags
       ELSE /\ flags' = (name :> v) @@ flags
            /\ UNCHANGED <<pc, result>>
    /\ UNCHANGED <<data, call, lastest_financial_index_value>>

probe_total_revenue_5cr_flag(after) ==
    Classify("TOTAL_REVENUE_5CR_FLAG",
             total_revenue_5cr_flag(data, lastest_financial_index_value.num), after)

probe_borrowing_to_revenue_flag(after) ==
    Classify("BORROWING_TO_REVENUE_FLAG",
             borrowing_to_revenue_flag(data, lastest_financial_index_value.num), after)

\* probe_iscr_flag evaluating the first period instead of the shared index.
probe_iscr_flag_first_period(after) ==
    Classify("ISCR_FLAG", iscr_flag(data, 0), after)

probe_iscr_flag(after) ==
    Classify("ISCR_FLAG",
             iscr_flag(data, lastest_financial_index_value.num), after)

probe_return ==
    /\ pc = "flags"
    /\ DOMAIN flags = FlagNames
    /\ pc' = "done"
    /\ result' = [kind |-> "dict", flags |-> flags]
    /\ UNCHANGED <<data, call, lastest_financial_index_value, flags>>

----------------------------------------------------------------------------
(* Specifications *)

InitRevenue == InitWith(DocsRevenue)

NextRevenue ==
    \/ call_latest_financial_index
    \/ call_total_revenue
    \/ call_total_revenue_5cr_flag

SpecRevenue == InitRevenue /\ [][NextRevenue]_vars

InitIscr == InitWith(DocsIscr)

NextIscr == call_iscr \/ call_iscr_flag

SpecIscr == InitIscr /\ [][NextIscr]_vars

InitBorrowing == InitWith(DocsBorrowing)

NextBorrowing == call_total_borrowing \/ call_borrowing_to_revenue_flag

SpecBorrowing == InitBorrowing /\ [][NextBorrowing]_vars

Init == InitWith(DocsPipeline)

\* The statements in the order of the source.
Next ==
    \/ probe_index
    \/ probe_total_revenue_5cr_flag({})
    \/ probe_borrowing_to_revenue_flag({"TOTAL_REVENUE_5CR_FLAG"})
    \/ probe_iscr_flag({"TOTAL_REVENUE_5CR_FLAG", "BORROWING_TO_REVENUE_FLAG"})
    \/ probe_return

Spec == Init /\ [][Next]_vars

\* The three classifier statements in any order.
NextAnyOrder ==
    \/ probe_index
    \/ probe_total_revenue_5cr_flag({})
    \/ probe_borrowing_to_revenue_flag({})
    \/ probe_iscr_flag({})
    \/ probe_return

SpecAnyOrder == Init /\ [][NextAnyOrder]_vars

----------------------------------------------------------------------------
(* Claims *)

Fn == call.fn

Arg == call.financial_index

Ret == call.ret

\* C1: every evaluation returns a value: neither the pipeline nor a rule
\* function it calls ever ends in a raised exception.
C1_EvaluationAlwaysReturns == pc # "raised" /\ ~IsRaise(result)

\* The index the selector is said to return: the first STANDALONE entry's,
\* 0 when there is none or when `financials` is absent.
FirstStandaloneOrZero(d) ==
    IF d.financials.kind = "absent" THEN 0
    ELSE LET fs == d.financials.items
             S == {i \in 0 .. Len(fs) - 1 : fs[i + 1].nature = "STANDALONE"}
         IN  IF S = {} THEN 0 ELSE CHOOSE i \in S : \A j \in S : i <= j

\* C2: latest_financial_index returns the index of the first STANDALONE
\* entry, and 0 when no entry matches, `financials` empty or absent included.
C2_SelectorFirstStandaloneOrZero ==
    Fn = "latest_financial_index" => Ret = IntVal(FirstStandaloneOrZero(data))

\* C3: borrowing_to_revenue_flag is AMBER when total_revenue is absent, not
\* a list or index >= its length; in every other case GREEN iff
\* total_borrowing(data, index) / total_revenue[index] <= 0.25, else AMBER
\* (stated for the indexes >= 0, the ones the period selector produces).
C3_BorrowingFlagContract ==
    (Fn = "borrowing_to_revenue_flag" /\ Arg >= 0) =>
        LET r == data.total_revenue
            ratio == Div(total_borrowing(data, Arg), IntVal(GetItem(r.items, Arg)))
        IN  IF r.kind # "list" \/ Arg >= Len(r.items) THEN Ret = IntVal(AMBER)
            ELSE IF IsNum(ratio) /\ NumLE(ratio, Num(1, 4))
            THEN Ret = IntVal(GREEN)
            ELSE Ret = IntVal(AMBER)

\* A document that supplies only total_revenue and bs, both in bounds at
\* the index with the borrowings present and a positive revenue.
OnlyRevenueAndBs(d, i) ==
    /\ d.financials = Absent
    /\ d.total_revenue.kind = "list" /\ d.bs.kind = "list"
    /\ 0 <= i /\ i < Len(d.total_revenue.items) /\ i < Len(d.bs.items)
    /\ d.bs.items[i + 1].long_term_borrowings # Absent
    /\ d.bs.items[i + 1].short_term_borrowings # Absent
    /\ d.total_revenue.items[i + 1] > 0

\* C4: for such a document borrowing_to_revenue_flag is GREEN exactly when
\* (sum of long term + sum of short term) / total_revenue[index] <= 0.25
\* (25/100 included) and AMBER otherwise.
C4_BorrowingFlagOnRevenueAndBs ==
    (Fn = "borrowing_to_revenue_flag" /\ OnlyRevenueAndBs(data, Arg)) =>
        LET e == data.bs.items[Arg + 1]
            borrowings == SumSeq(e.long_term_borrowings.items)
                          + SumSeq(e.short_term_borrowings.items)
        IN  Ret = IF 4 * borrowings <= data.total_revenue.items[Arg + 1]
                  THEN IntVal(GREEN) ELSE IntVal(AMBER)

\* C5: total_borrowing returns borrowings / total_revenue(data, index) when
\* bs is a list with the index in bounds, None when that revenue is zero,
\* and 0.0 when bs is absent, not a list or the index is out of bounds
\* (stated for the indexes >= 0, the ones the period selector produces, and
\* for entries that hold both borrowings).
C5_TotalBorrowingContract ==
    (Fn = "total_borrowing" /\ Arg >= 0) =>
        IF data.bs.kind = "list" /\ Arg < Len(data.bs.items)
        THEN LET e == data.bs.items[Arg + 1]
                 rev == total_revenue(data, Arg)
                 borrowings == SumSeq(e.long_term_borrowings.items)
                               + SumSeq(e.short_term_borrowings.items)
             IN  (e.long_term_borrowings # Absent /\ e.short_term_borrowings # Absent)
                 => /\ ~IsRaise(Ret)
                    /\ rev = IntVal(0) => Ret = None
                    /\ (IsNum(rev) /\ rev # IntVal(0))
                           => Ret = Div(IntVal(borrowings), rev)
        ELSE Ret = IntVal(0)

\* Every link of financials[i].pnl.lineItems.netRevenue exists.
ChainExists(d, i) ==
    /\ d.financials # Absent
    /\ i \in 0 .. Len(d.financials.items) - 1
    /\ d.financials.items[i + 1].pnl # Absent
    /\ d.financials.items[i + 1].pnl.lineItems # Absent
    /\ d.financials.items[i + 1].pnl.lineItems.netRevenue # Absent

\* C6: total_revenue returns exactly the netRevenue when the whole chain
\* exists and None (never zero) when a link is absent or the index is out of
\* bounds, negative indices included.
C6_TotalRevenueExactOrMissing ==
    Fn = "total_revenue" =>
        IF ChainExists(data, Arg)
        THEN Ret = data.financials.items[Arg + 1].pnl.lineItems.netRevenue
        ELSE Ret = None /\ Ret # IntVal(0)

C6_Witness ==
    /\ Fn = "total_revenue" /\ Arg = 1
    /\ ChainExists(data, 1) /\ ~ChainExists(data, 0)
    /\ Ret = IntVal(60000000)

\* The index is within the shorter of the two sequences iscr reads.
IscrInRange(d, i) ==
    /\ d.profit_before_interest_tax_deprec # Absent
    /\ d.interest_expenses # Absent
    /\ 0 <= i
    /\ i < Len(d.profit_before_interest_tax_deprec.items)
    /\ i < Len(d.interest_expenses.items)

\* C7: iscr is (profit[i] + 1) / (interest[i] + 1) for every i within the
\* shorter sequence and 0.0 outside it; iscr_flag is GREEN iff iscr >= 2 and
\* RED otherwise (GREEN for 9 and 4, RED for every index out of range).
C7_IscrContract ==
    LET profit == data.profit_before_interest_tax_deprec.items[Arg + 1]
        interest == data.interest_expenses.items[Arg + 1]
    IN  /\ Fn = "iscr" =>
            IF IscrInRange(data, Arg)
            THEN IsNum(Ret) /\ Ret.num * (interest + 1) = Ret.den * (profit + 1)
            ELSE Ret = IntVal(0)
        /\ Fn = "iscr_flag" =>
            IF IscrInRange(data, Arg)
            THEN /\ Ret \in {IntVal(GREEN), IntVal(RED)}
                 /\ Ret = IntVal(GREEN) <=>
                        (IsNum(iscr(data, Arg)) /\ NumLE(IntVal(2), iscr(data, Arg)))
                 /\ (profit = 9 /\ interest = 4) => Ret = IntVal(GREEN)
            ELSE Ret = IntVal(RED)

\* financials = [{nature: CONSOLIDATED}, {nature: STANDALONE, netRevenue: 60000000}]
Scenario5Cr ==
    Document(List(<<Financial("CONSOLIDATED", Absent),
                    Financial("STANDALONE", Revenue(60000000))>>),
             Absent, Absent, Absent, Absent)

\* C8: total_revenue_5cr_flag is GREEN iff the revenue total_revenue
\* extracts is present and >= 50,000,000, RED in every other case; for the
\* scenario document the selected index is 1 and the flag GREEN.
C8_Revenue5CrFlag ==
    /\ Fn = "total_revenue_5cr_flag" =>
           Ret = IF ChainExists(data, Arg)
                    /\ total_revenue(data, Arg).num >= 50000000 * total_revenue(data, Arg).den
                 THEN IntVal(GREEN) ELSE IntVal(RED)
    /\ (data = Scenario5Cr /\ Fn = "latest_financial_index") => Ret = IntVal(1)
    /\ (data = Scenario5Cr /\ Fn = "total_revenue_5cr_flag" /\ Arg = 1)
           => Ret = IntVal(GREEN)

C8_Witness ==
    /\ Fn = "total_revenue_5cr_flag" /\ Arg = 0
    /\ ChainExists(data, 0)
    /\ total_revenue(data, 0) = IntVal(50000000)
    /\ Ret = IntVal(GREEN)

\* The mapping the pipeline is to return for document d.
ExpectedFlags(d) ==
    LET index == latest_financial_index(d).num
    IN  [n \in FlagNames |->
            IF n = "TOTAL_REVENUE_5CR_FLAG" THEN total_revenue_5cr_flag(d, index)
            ELSE IF n = "BORROWING_TO_REVENUE_FLAG"
            THEN borrowing_to_revenue_flag(d, index)
            ELSE iscr_flag(d, index)]

\* C9: in whatever order the three classifiers run, the returned mapping has
\* exactly the three entries, each the classifier's value at (document,
\* index computed once by latest_financial_index), and the document is
\* never changed.
C9_PipelineSharedIndexAnyOrder ==
    /\ [](pc = "done" =>
            /\ lastest_financial_index_value = latest_financial_index(data)
            /\ DOMAIN result.flags = FlagNames
            /\ result.flags = ExpectedFlags(data))
    /\ [][data' = data]_vars

C9_Witness ==
    /\ pc = "done"
    /\ lastest_financial_index_value = IntVal(1)
    /\ result.flags["TOTAL_REVENUE_5CR_FLAG"] = IntVal(GREEN)
    /\ result.flags["BORROWING_TO_REVENUE_FLAG"] = IntVal(AMBER)
    /\ result.flags["ISCR_FLAG"] = IntVal(RED)
    /\ iscr_flag(data, 0) = IntVal(GREEN)

\* C10: every flag of a returned result is RED, GREEN or AMBER, never
\* MEDIUM_RISK or WHITE: the revenue and ISCR flags are GREEN or RED, the
\* borrowing flag GREEN or AMBER.
C10_FlagValues ==
    pc = "done" =>
        /\ \A n \in DOMAIN result.flags :
               /\ result.flags[n] \in {IntVal(RED), IntVal(GREEN), IntVal(AMBER)}
               /\ result.flags[n] \notin {IntVal(MEDIUM_RISK), IntVal(WHITE)}
        /\ result.flags["TOTAL_REVENUE_5CR_FLAG"] \in {IntVal(GREEN), IntVal(RED)}
        /\ result.flags["ISCR_FLAG"] \in {IntVal(GREEN), IntVal(RED)}
        /\ result.flags["BORROWING_TO_REVENUE_FLAG"] \in {IntVal(GREEN), IntVal(AMBER)}

C10_Witness ==
    /\ pc = "done"
    /\ result.flags["TOTAL_REVENUE_5CR_FLAG"] = IntVal(RED)
    /\ result.flags["BORROWING_TO_REVENUE_FLAG"] = IntVal(AMBER)
    /\ result.flags["ISCR_FLAG"] = IntVal(GREEN)
    /\ total_revenue(data, lastest_financial_index_value.num) = None

====
